---- MODULE Spec2Model ----
(***************************************************************************)
(* Model of src/server.js, the server-held-token variant (lines 116-301):  *)
(* an express server that caches one Spotify access/refresh token pair in  *)
(* two module-level variables and serves /login, /callback, /spotify,      *)
(* /spotify/stop and /spotify/play/:trackUri.                              *)
(*                                                                         *)
(* Every inbound request is one run of an async route handler.  A handler  *)
(* runs to completion between two awaits (the node event loop is           *)
(* single-threaded), so each action below is one such synchronous          *)
(* segment: from the arrival of the request, or from the settlement of    *)
(* the awaited axios call, up to the next await or the end of the handler. *)
(* The async helper fetchWithSpotifyAuth is awaited by the /spotify route: *)
(* its catch block is one segment and the route resumes in a later one.    *)
(* When the helper's axios call succeeds the helper's own segment changes  *)
(* nothing, and it is taken together with the route's.                     *)
(***************************************************************************)
EXTENDS Integers, Sequences, FiniteSets, TLC

\* Number of inbound requests that arrive in one run of the server.
MaxReq == 3

Req == 1..MaxReq

\* JavaScript null and undefined, as values of the token variables.
Null == "null"
Undefined == "undefined"

\* Tokens the provider's token endpoint may hand out.
AccessTokens == {"A1", "A2"}
RefreshTokens == {"R1", "R2"}

\* Values of ?token= on the playback-control routes (req.query.token).
QueryTokens == {"A1", Undefined}

\* JavaScript truthiness of a token value (used by !cachedAccessToken).
Truthy(v) == v \notin {Null, Undefined, ""}

----------------------------------------------------------------------------
(* Strings are sequences of one-character strings.                         *)

UpperChars == <<"A","B","C","D","E","F","G","H","I","J","K","L","M",
                "N","O","P","Q","R","S","T","U","V","W","X","Y","Z">>
LowerChars == <<"a","b","c","d","e","f","g","h","i","j","k","l","m",
                "n","o","p","q","r","s","t","u","v","w","x","y","z">>

\* String.prototype.toLowerCase on one character.
LowerChar(c) ==
  IF \E i \in DOMAIN UpperChars : UpperChars[i] = c
  THEN LowerChars[CHOOSE i \in DOMAIN UpperChars : UpperChars[i] = c]
  ELSE c

\* String.prototype.toLowerCase.
ToLowerCase(s) == [i \in DOMAIN s |-> LowerChar(s[i])]

\* String.prototype.includes.
Includes(s, t) ==
  \E i \in 0..(Len(s) - Len(t)) : SubSeq(s, i + 1, i + Len(t)) = t

\* The literal "expired" of line 195.
ExpiredWord == <<"e","x","p","i","r","e","d">>

----------------------------------------------------------------------------
(* An axios error, flattened.  hasResponse is FALSE for a network failure  *)
(* (error.response undefined).  errKind is the shape of                    *)
(* error.response.data.error: "none" (no data, or data without an error    *)
(* member), "string" (data.error is a string, as the token endpoint sends  *)
(* it) or "object" (data.error is {status, message}).  msgKind is the      *)
(* shape of data.error.message: "none", "string" or "number"; message is   *)
(* the string, or the numeral of the number ("0", "NaN", "500").           *)

AxiosError(hasResponse, status, errKind, msgKind, message) ==
  [hasResponse |-> hasResponse, status |-> status, errKind |-> errKind,
   msgKind |-> msgKind, message |-> message]

\* The value of `caught` while a handler has caught nothing.
NoError == AxiosError(FALSE, 0, "nothing", "none", <<>>)

\* No response at all: error.response is undefined.
NetworkError == AxiosError(FALSE, 0, "none", "none", <<>>)

\* status === 401 with status = error.response?.status (lines 190, 194).
StatusIs401(error) == error.hasResponse /\ error.status = 401

\* The numbers that are falsy in JavaScript, as numerals.
FalsyNumerals == { <<"0">>, <<"-","0">>, <<"N","a","N">> }

\* spotifyError && spotifyError.message (lines 191, 195): truthy or not.
\* A string error has no message member; the empty string, 0 and NaN are
\* falsy.
MessageTruthy(error) ==
  /\ error.hasResponse
  /\ error.errKind = "object"
  /\ \/ error.msgKind = "number" /\ error.message \notin FalsyNumerals
     \/ error.msgKind = "string" /\ error.message # <<>>

\* Classify without the toLowerCase of line 195.
ClassifyCaseSensitive(error) ==
  IF StatusIs401(error) THEN "auth"
  ELSE IF ~MessageTruthy(error) THEN "rethrow"
  ELSE IF error.msgKind # "string" THEN "typeerror"
  ELSE IF Includes(error.message, ExpiredWord) THEN "auth"
  ELSE "rethrow"

\* Classify as the variants that redirect to /login on any fetch error.
ClassifyAnyError(error) == "auth"

\* The catch block of fetchWithSpotifyAuth (lines 188-203): "auth" when the
\* condition of line 193 holds, "rethrow" when line 202 rethrows the error,
\* "typeerror" when the message is truthy and has no toLowerCase method.
Classify(error) ==
  IF StatusIs401(error) THEN "auth"
  ELSE IF ~MessageTruthy(error) THEN "rethrow"
  ELSE IF error.msgKind # "string" THEN "typeerror"
  ELSE IF Includes(ToLowerCase(error.message), ExpiredWord) THEN "auth"
  ELSE "rethrow"

\* Failures of an outbound API GET that the remote API produces.
E401 == AxiosError(TRUE, 401, "object", "string",
          <<"T","h","e"," ","a","c","c","e","s","s"," ","t","o","k","e","n",
            " ","e","x","p","i","r","e","d">>)
E400Expired == AxiosError(TRUE, 400, "object", "string",
          <<"T","o","k","e","n"," ","E","x","p","i","r","e","d">>)
E429 == AxiosError(TRUE, 429, "none", "none", <<>>)
E500Number == AxiosError(TRUE, 500, "object", "number", <<"5","0","0">>)

GetErrors == {E401, E400Expired, E429, E500Number, NetworkError}

\* Failures of the token endpoint and of the playback PUTs.
E400InvalidGrant == AxiosError(TRUE, 400, "string", "none", <<>>)
TokenErrors == {E400InvalidGrant, NetworkError}
PutErrors == {E401, NetworkError}

----------------------------------------------------------------------------
(* HTTP responses of this server.                                          *)

Response(status, kind, body) == [status |-> status, kind |-> kind, body |-> body]

\* res.redirect("/login") (lines 198, 213).
RedirectLogin == Response(302, "redirect", "/login")
\* res.redirect(authorizeURL) (line 142).
RedirectAuthorize == Response(302, "redirect", "authorize")
\* res.json(...) (lines 171, 245, 264, 292).
JsonOk(body) == Response(200, "json", body)
\* res.status(500).json({error, ...}) (lines 178, 253, 266, 294).
JsonError == Response(500, "json", "error")

\* An outbound call to the remote API: which endpoint, with which bearer
\* token in its Authorization header, and with which uris in its body.
ApiCall(url, bearer, uris) == [url |-> url, bearer |-> bearer, uris |-> uris]

----------------------------------------------------------------------------
(* decodeURIComponent (line 277) on the track identifiers below: "%3A" is  *)
(* ":", a "%" that is not followed by two hexadecimal digits is a         *)
(* URIError.                                                               *)

TrackPlain == <<"s","p","o","t","i","f","y",":","t","r","a","c","k",":","a","b","c">>
TrackEncoded == <<"s","p","o","t","i","f","y","%","3","A","t","r","a","c","k",
                  "%","3","A","a","b","c">>
TrackMalformed == <<"%">>
TrackUris == {TrackPlain, TrackEncoded, TrackMalformed}

URIError == <<"U","R","I","E","r","r","o","r">>

RECURSIVE DecodeFrom(_, _)
DecodeFrom(s, i) ==
  IF i > Len(s) THEN <<>>
  ELSE IF s[i] # "%" THEN
    LET tail == DecodeFrom(s, i + 1)
    IN  IF tail = URIError THEN URIError ELSE <<s[i]>> \o tail
  ELSE IF i + 2 <= Len(s) /\ s[i + 1] = "3" /\ s[i + 2] = "A" THEN
    LET tail == DecodeFrom(s, i + 3)
    IN  IF tail = URIError THEN URIError ELSE <<":">> \o tail
  ELSE URIError

DecodeURIComponent(s) == DecodeFrom(s, 1)

\* tokenResponse.data of a successful exchange (line 163).
TokenData(access_token, refresh_token) ==
  [access_token |-> access_token, refresh_token |-> refresh_token]

\* The value of tokenResponse before the exchange has succeeded.
NoTokens == TokenData(Null, Null)

----------------------------------------------------------------------------
VARIABLES
  cachedAccessToken,   \* line 129
  cachedRefreshToken,  \* line 130
  arrived,             \* number of inbound requests received so far
  route,               \* route of each inbound request, "none" before it arrives
  pc,                  \* the await each handler is suspended at, or "done"
  headers,             \* bearer token of the handler's headers object
  caught,              \* the axios error the handler has caught, if any
  apiLog,              \* outbound calls to the remote API, per inbound request
  tokenLog,            \* outbound calls to the token endpoint (grant types)
  tokenResponse,       \* tokenResponse.data of each /callback (lines 151, 163)
  resp,                \* HTTP responses sent for each inbound request
  clsError,            \* input of the classification run
  clsResult            \* result of the classification run

vars == <<cachedAccessToken, cachedRefreshToken, arrived, route, pc, headers,
          caught, apiLog, tokenLog, tokenResponse, resp, clsError, clsResult>>

store == <<cachedAccessToken, cachedRefreshToken>>
cls == <<clsError, clsResult>>

Init ==
  /\ cachedAccessToken = Null
  /\ cachedRefreshToken = Null
  /\ arrived = 0
  /\ route = [r \in Req |-> "none"]
  /\ pc = [r \in Req |-> "idle"]
  /\ headers = [r \in Req |-> Undefined]
  /\ caught = [r \in Req |-> NoError]
  /\ apiLog = [r \in Req |-> <<>>]
  /\ tokenLog = [r \in Req |-> <<>>]
  /\ tokenResponse = [r \in Req |-> NoTokens]
  /\ resp = [r \in Req |-> <<>>]
  /\ clsError = NoError
  /\ clsResult = "none"

\* Express dispatches the next inbound request to the handler of `name`.
Arrive(r, name) ==
  /\ r = arrived + 1
  /\ arrived' = r
  /\ route' = [route EXCEPT ![r] = name]

\* The handler of r resumes from the await `at`.
Resume(r, at) ==
  /\ pc[r] = at
  /\ UNCHANGED <<arrived, route>>

Send(r, response) == resp' = [resp EXCEPT ![r] = Append(@, response)]

----------------------------------------------------------------------------
(* GET /login (lines 135-143)                                              *)

Login(r) ==
  /\ Arrive(r, "login")
  /\ pc' = [pc EXCEPT ![r] = "done"]
  /\ Send(r, RedirectAuthorize)
  /\ UNCHANGED <<store, headers, caught, apiLog, tokenLog, tokenResponse, cls>>

----------------------------------------------------------------------------
(* GET /callback (lines 148-180)                                           *)

\* Lines 149-161: post the authorization-code grant and await it.
CallbackStart(r) ==
  /\ Arrive(r, "callback")
  /\ tokenLog' = [tokenLog EXCEPT ![r] = Append(@, "authorization_code")]
  /\ pc' = [pc EXCEPT ![r] = "await_token"]
  /\ UNCHANGED <<store, headers, caught, apiLog, resp, tokenResponse, cls>>

\* Lines 163-175 with the refresh token written only while none is cached.
CallbackResolveTorn(r, access_token, refresh_token) ==
  /\ Resume(r, "await_token")
  /\ tokenResponse' = [tokenResponse EXCEPT ![r] = TokenData(access_token, refresh_token)]
  /\ cachedAccessToken' = access_token
  /\ cachedRefreshToken' =
       IF Truthy(cachedRefreshToken) THEN cachedRefreshToken ELSE refresh_token
  /\ pc' = [pc EXCEPT ![r] = "done"]
  /\ Send(r, JsonOk("tokens"))
  /\ UNCHANGED <<headers, caught, apiLog, tokenLog, cls>>

\* Lines 163-175: the exchange succeeded; tokenResponse.data carries
\* access_token and, unless the provider omits it, refresh_token.
CallbackResolve(r, access_token, refresh_token) ==
  /\ Resume(r, "await_token")
  /\ tokenResponse' = [tokenResponse EXCEPT ![r] = TokenData(access_token, refresh_token)]
  /\ cachedAccessToken' = access_token
  /\ cachedRefreshToken' = refresh_token
  /\ pc' = [pc EXCEPT ![r] = "done"]
  /\ Send(r, JsonOk("tokens"))
  /\ UNCHANGED <<headers, caught, apiLog, tokenLog, cls>>

\* Lines 176-179 with the cache dropped on a failed exchange.
CallbackRejectClearing(r, error) ==
  /\ Resume(r, "await_token")
  /\ caught' = [caught EXCEPT ![r] = error]
  /\ cachedAccessToken' = Null
  /\ cachedRefreshToken' = Null
  /\ pc' = [pc EXCEPT ![r] = "done"]
  /\ Send(r, JsonError)
  /\ UNCHANGED <<headers, apiLog, tokenLog, tokenResponse, cls>>

\* Lines 176-179: the exchange failed.
CallbackReject(r, error) ==
  /\ Resume(r, "await_token")
  /\ caught' = [caught EXCEPT ![r] = error]
  /\ pc' = [pc EXCEPT ![r] = "done"]
  /\ Send(r, JsonError)
  /\ UNCHANGED <<store, headers, apiLog, tokenLog, tokenResponse, cls>>

----------------------------------------------------------------------------
(* fetchWithSpotifyAuth (lines 185-204) as called from GET /spotify        *)
(* (lines 209-255).                                                        *)

\* FetchRejected posting a refresh grant on an authentication failure and
\* awaiting its answer, each call on its own.
FetchRejectedAwaitingRefresh(r, error) ==
  /\ caught' = [caught EXCEPT ![r] = error]
  /\ IF Classify(error) = "auth"
     THEN /\ tokenLog' = [tokenLog EXCEPT ![r] = Append(@, "refresh_token")]
          /\ pc' = [pc EXCEPT ![r] = "await_refresh"]
     ELSE /\ pc' = [pc EXCEPT ![r] = "rethrown"]
          /\ UNCHANGED tokenLog
  /\ UNCHANGED <<store, headers, apiLog, resp, tokenResponse, cls>>

\* FetchRejected redirecting on an authentication failure and rethrowing
\* all the same, so that the route's catch answers a second time.
FetchRejectedRedirectAndThrow(r, error) ==
  /\ caught' = [caught EXCEPT ![r] = error]
  /\ pc' = [pc EXCEPT ![r] = "rethrown"]
  /\ IF Classify(error) = "auth"
     THEN Send(r, RedirectLogin)
     ELSE UNCHANGED resp
  /\ UNCHANGED <<store, headers, apiLog, tokenLog, tokenResponse, cls>>

\* FetchRejected dropping the cached access token on an authentication
\* failure.
FetchRejectedInvalidating(r, error) ==
  /\ caught' = [caught EXCEPT ![r] = error]
  /\ IF Classify(error) = "auth"
     THEN /\ pc' = [pc EXCEPT ![r] = "returned_null"]
          /\ Send(r, RedirectLogin)
          /\ cachedAccessToken' = Null
     ELSE /\ pc' = [pc EXCEPT ![r] = "rethrown"]
          /\ UNCHANGED <<resp, cachedAccessToken>>
  /\ UNCHANGED <<cachedRefreshToken, headers, apiLog, tokenLog, tokenResponse, cls>>

\* The catch block of fetchWithSpotifyAuth, lines 188-203, one job of the
\* event loop: on an authentication failure line 198 redirects to /login
\* and line 199 resolves the helper's promise with null; any other error is
\* rethrown (line 202) and the TypeError of line 195 is thrown, which
\* rejects the helper's promise.  The route handler awaiting the helper
\* resumes in a later job (SpotifyReturn, SpotifyCatch).
FetchRejected(r, error) ==
  /\ caught' = [caught EXCEPT ![r] = error]
  /\ IF Classify(error) = "auth"
     THEN /\ pc' = [pc EXCEPT ![r] = "returned_null"]
          /\ Send(r, RedirectLogin)
     ELSE /\ pc' = [pc EXCEPT ![r] = "rethrown"]
          /\ UNCHANGED resp
  /\ UNCHANGED <<store, headers, apiLog, tokenLog, tokenResponse, cls>>

\* Lines 210-219 without the guard of line 211.
SpotifyStartUnguarded(r) ==
  /\ Arrive(r, "spotify")
  /\ headers' = [headers EXCEPT ![r] = cachedAccessToken]
  /\ apiLog' = [apiLog EXCEPT ![r] =
                  Append(@, ApiCall("top-tracks", cachedAccessToken, <<>>))]
  /\ pc' = [pc EXCEPT ![r] = "await_top"]
  /\ UNCHANGED <<store, caught, tokenLog, resp, tokenResponse, cls>>

\* Lines 210-219: redirect when nothing is cached, else build the headers
\* from the cached access token and request the top tracks.
SpotifyStart(r) ==
  /\ Arrive(r, "spotify")
  /\ IF ~Truthy(cachedAccessToken)
     THEN /\ pc' = [pc EXCEPT ![r] = "done"]
          /\ Send(r, RedirectLogin)
          /\ UNCHANGED <<headers, apiLog>>
     ELSE /\ headers' = [headers EXCEPT ![r] = cachedAccessToken]
          /\ apiLog' = [apiLog EXCEPT ![r] =
                          Append(@, ApiCall("top-tracks", cachedAccessToken, <<>>))]
          /\ pc' = [pc EXCEPT ![r] = "await_top"]
          /\ UNCHANGED resp
  /\ UNCHANGED <<store, caught, tokenLog, tokenResponse, cls>>

\* Lines 220-233: the top-tracks call succeeded.  Without data.items the
\* .map of line 221 throws and line 253 answers; with it the
\* currently-playing call is issued with the same headers object.
TopTracksResolve(r, hasItems) ==
  /\ Resume(r, "await_top")
  /\ IF hasItems
     THEN /\ apiLog' = [apiLog EXCEPT ![r] =
                          Append(@, ApiCall("currently-playing", headers[r], <<>>))]
          /\ pc' = [pc EXCEPT ![r] = "await_playing"]
          /\ UNCHANGED resp
     ELSE /\ pc' = [pc EXCEPT ![r] = "done"]
          /\ Send(r, JsonError)
          /\ UNCHANGED apiLog
  /\ UNCHANGED <<store, headers, caught, tokenLog, tokenResponse, cls>>

\* TopTracksReject reissuing the request on every authentication failure.
TopTracksRejectRetrying(r, error) ==
  /\ Resume(r, "await_top")
  /\ IF Classify(error) = "auth"
     THEN /\ apiLog' = [apiLog EXCEPT ![r] =
                          Append(@, ApiCall("top-tracks", headers[r], <<>>))]
          /\ caught' = [caught EXCEPT ![r] = error]
          /\ UNCHANGED <<store, headers, pc, tokenLog, resp, tokenResponse, cls>>
     ELSE FetchRejected(r, error)

\* TopTracksReject going on to the currently-playing call after a failure
\* that is no authentication failure.
TopTracksRejectContinuing(r, error) ==
  /\ Resume(r, "await_top")
  /\ IF Classify(error) = "auth"
     THEN FetchRejected(r, error)
     ELSE /\ caught' = [caught EXCEPT ![r] = error]
          /\ apiLog' = [apiLog EXCEPT ![r] =
                          Append(@, ApiCall("currently-playing", headers[r], <<>>))]
          /\ pc' = [pc EXCEPT ![r] = "await_playing"]
          /\ UNCHANGED <<store, headers, tokenLog, resp, tokenResponse, cls>>

\* The top-tracks call failed (line 219 through lines 188-203).
TopTracksReject(r, error) ==
  /\ Resume(r, "await_top")
  /\ FetchRejected(r, error)

\* Lines 234-250: the currently-playing call succeeded.  An item without
\* artists makes the .map of line 239 throw, and line 253 answers; an item
\* with artists, no item or no data gives the combined JSON.
PlayingResolve(r, wellFormed) ==
  /\ Resume(r, "await_playing")
  /\ pc' = [pc EXCEPT ![r] = "done"]
  /\ IF wellFormed
     THEN Send(r, JsonOk("success"))
     ELSE Send(r, JsonError)
  /\ UNCHANGED <<store, headers, caught, apiLog, tokenLog, tokenResponse, cls>>

\* The currently-playing call failed (line 229 through lines 188-203).
PlayingReject(r, error) ==
  /\ Resume(r, "await_playing")
  /\ FetchRejected(r, error)

\* Lines 220 and 234: the helper returned null, the handler returns.
SpotifyReturn(r) ==
  /\ Resume(r, "returned_null")
  /\ pc' = [pc EXCEPT ![r] = "done"]
  /\ UNCHANGED <<store, headers, caught, apiLog, tokenLog, tokenResponse, resp, cls>>

\* Lines 251-254: the helper threw, the catch of the route answers.
SpotifyCatch(r) ==
  /\ Resume(r, "rethrown")
  /\ pc' = [pc EXCEPT ![r] = "done"]
  /\ Send(r, JsonError)
  /\ UNCHANGED <<store, headers, caught, apiLog, tokenLog, tokenResponse, cls>>

----------------------------------------------------------------------------
(* PUT /spotify/stop (lines 258-271)                                       *)

StopStart(r, token) ==
  /\ Arrive(r, "stop")
  /\ headers' = [headers EXCEPT ![r] = token]
  /\ apiLog' = [apiLog EXCEPT ![r] = Append(@, ApiCall("pause", token, <<>>))]
  /\ pc' = [pc EXCEPT ![r] = "await_pause"]
  /\ UNCHANGED <<store, caught, tokenLog, resp, tokenResponse, cls>>

StopResolve(r) ==
  /\ Resume(r, "await_pause")
  /\ pc' = [pc EXCEPT ![r] = "done"]
  /\ Send(r, JsonOk("success"))
  /\ UNCHANGED <<store, headers, caught, apiLog, tokenLog, tokenResponse, cls>>

StopReject(r, error) ==
  /\ Resume(r, "await_pause")
  /\ caught' = [caught EXCEPT ![r] = error]
  /\ pc' = [pc EXCEPT ![r] = "done"]
  /\ Send(r, JsonError)
  /\ UNCHANGED <<store, headers, apiLog, tokenLog, tokenResponse, cls>>

----------------------------------------------------------------------------
(* PUT /spotify/play/:trackUri (lines 275-299)                             *)

PlayStart(r, token, trackUri) ==
  /\ Arrive(r, "play")
  /\ IF DecodeURIComponent(trackUri) = URIError
     THEN /\ pc' = [pc EXCEPT ![r] = "done"]
          /\ Send(r, JsonError)
          /\ UNCHANGED <<headers, apiLog>>
     ELSE /\ headers' = [headers EXCEPT ![r] = token]
          /\ apiLog' = [apiLog EXCEPT ![r] =
                          Append(@, ApiCall("play", token, DecodeURIComponent(trackUri)))]
          /\ pc' = [pc EXCEPT ![r] = "await_play"]
          /\ UNCHANGED resp
  /\ UNCHANGED <<store, caught, tokenLog, tokenResponse, cls>>

PlayResolve(r) ==
  /\ Resume(r, "await_play")
  /\ pc' = [pc EXCEPT ![r] = "done"]
  /\ Send(r, JsonOk("success"))
  /\ UNCHANGED <<store, headers, caught, apiLog, tokenLog, tokenResponse, cls>>

PlayReject(r, error) ==
  /\ Resume(r, "await_play")
  /\ caught' = [caught EXCEPT ![r] = error]
  /\ pc' = [pc EXCEPT ![r] = "done"]
  /\ Send(r, JsonError)
  /\ UNCHANGED <<store, headers, apiLog, tokenLog, tokenResponse, cls>>

----------------------------------------------------------------------------
Next ==
  \E r \in Req :
    \/ Login(r)
    \/ CallbackStart(r)
    \/ \E a \in AccessTokens, t \in RefreshTokens \cup {Undefined} :
         CallbackResolve(r, a, t)
    \/ \E e \in TokenErrors : CallbackReject(r, e)
    \/ SpotifyStart(r)
    \/ \E b \in BOOLEAN : TopTracksResolve(r, b)
    \/ \E e \in GetErrors : TopTracksReject(r, e)
    \/ \E b \in BOOLEAN : PlayingResolve(r, b)
    \/ \E e \in GetErrors : PlayingReject(r, e)
    \/ SpotifyReturn(r)
    \/ SpotifyCatch(r)
    \/ \E t \in QueryTokens : StopStart(r, t)
    \/ StopResolve(r)
    \/ \E e \in PutErrors : StopReject(r, e)
    \/ \E t \in QueryTokens, u \in TrackUris : PlayStart(r, t, u)
    \/ PlayResolve(r)
    \/ \E e \in PutErrors : PlayReject(r, e)

Spec == Init /\ [][Next]_vars

TypeOK ==
  /\ cachedAccessToken \in AccessTokens \cup {Null}
  /\ cachedRefreshToken \in RefreshTokens \cup {Null, Undefined}
  /\ arrived \in 0..MaxReq
  /\ \A r \in Req : (route[r] = "none") <=> (r > arrived)

----------------------------------------------------------------------------
(* The classification of lines 190-196 on its own: one run draws an error  *)
(* and classifies it.                                                      *)

Messages ==
  { <<"e","x","p","i","r","e","d">>,
    <<"E","X","P","I","R","E","D">>,
    <<"T","o","k","e","n"," ","E","x","p","i","r","e","d">>,
    <<"T","h","e"," ","a","c","c","e","s","s"," ","t","o","k","e","n",
      " ","e","x","p","i","r","e","d">>,
    <<"e","X","p","I","r","E","d"," ","t","o","k","e","n">>,
    <<"u","n","e","x","p","i","r","e","d","!">>,
    <<"e","x","p","i","r","e">>,
    <<"E","x","p","i","r","d">>,
    <<"e","x","p"," ","i","r","e","d">>,
    <<"I","n","v","a","l","i","d"," ","t","o","k","e","n">>,
    <<"N","o"," ","a","c","t","i","v","e"," ","d","e","v","i","c","e">>,
    <<>> }

ClassifyInputs ==
  {NetworkError}
  \cup { AxiosError(TRUE, st, k, "none", <<>>) :
           st \in {400, 401, 403, 500}, k \in {"none", "string", "object"} }
  \cup { AxiosError(TRUE, st, "object", "number", n) :
           st \in {400, 401, 403, 500},
           n \in { <<"0">>, <<"N","a","N">>, <<"5","0","0">>, <<"-","1">> } }
  \cup { AxiosError(TRUE, st, "object", "string", m) :
           st \in {400, 401, 403, 500}, m \in Messages }

InitClassify ==
  /\ cachedAccessToken = Null
  /\ cachedRefreshToken = Null
  /\ arrived = 0
  /\ route = [r \in Req |-> "none"]
  /\ pc = [r \in Req |-> "idle"]
  /\ headers = [r \in Req |-> Undefined]
  /\ caught = [r \in Req |-> NoError]
  /\ apiLog = [r \in Req |-> <<>>]
  /\ tokenLog = [r \in Req |-> <<>>]
  /\ tokenResponse = [r \in Req |-> NoTokens]
  /\ resp = [r \in Req |-> <<>>]
  /\ clsError \in ClassifyInputs
  /\ clsResult = "none"

ClassifyRun ==
  /\ clsResult = "none"
  /\ clsResult' = Classify(clsError)
  /\ UNCHANGED <<store, arrived, route, pc, headers, caught, apiLog, tokenLog,
                 tokenResponse, resp, clsError>>

NextClassify == ClassifyRun

SpecClassify == InitClassify /\ [][NextClassify]_vars

----------------------------------------------------------------------------
(* Vocabulary of the properties.                                           *)

ApiRoutes == {"spotify", "stop", "play"}

\* Number of entries of the sequence s that satisfy Test.
Count(s, Test(_)) == Cardinality({i \in DOMAIN s : Test(s[i])})

IsRefreshGrant(g) == g = "refresh_token"
RefreshCalls(r) == Count(tokenLog[r], IsRefreshGrant)
Issued(r, url) == Cardinality({i \in DOMAIN apiLog[r] : apiLog[r][i].url = url})

\* A /callback exchange has succeeded.
CallbackSucceeded(q) ==
  route[q] = "callback" /\ resp[q] = <<JsonOk("tokens")>>

\* The character c is the letter l (lower case) in either letter case.
AnyCase(c, l) ==
  \/ c = l
  \/ \E k \in DOMAIN LowerChars : LowerChars[k] = l /\ UpperChars[k] = c

\* The message m contains "expired" in any letter case.
SaysExpired(m) ==
  \E i \in 0..(Len(m) - Len(ExpiredWord)) :
    \A j \in DOMAIN ExpiredWord : AnyCase(m[i + j], ExpiredWord[j])

\* The failure e is an authentication failure: HTTP status 401, or a
\* provider error body whose message says "expired".
AuthFailure(e) ==
  /\ e.hasResponse
  /\ \/ e.status = 401
     \/ e.errKind = "object" /\ e.msgKind = "string" /\ SaysExpired(e.message)

\* The handler of r has just caught the failure of an outbound API request.
Catches(r) == route[r] \in ApiRoutes /\ caught[r] = NoError /\ caught'[r] # NoError

----------------------------------------------------------------------------
\* C1: as long as no /callback exchange has succeeded, every GET /spotify
\* is answered with exactly a redirect to /login and has issued no call to
\* the remote API and none to the token endpoint.
C1_NoCredentialRedirects ==
  (\A q \in Req : ~CallbackSucceeded(q)) =>
    \A r \in Req : route[r] = "spotify" =>
      /\ resp[r] = <<RedirectLogin>>
      /\ apiLog[r] = <<>>
      /\ tokenLog[r] = <<>>

\* A GET /spotify answered before any exchange succeeded, here after a
\* failed one.
C1_Witness ==
  /\ \A q \in Req : ~CallbackSucceeded(q)
  /\ \E q \in Req : route[q] = "callback" /\ pc[q] = "done"
  /\ \E r \in Req : route[r] = "spotify" /\ resp[r] = <<RedirectLogin>>

\* C2: when a refresh token is stored and an outbound request of a GET
\* /spotify got a 401, the handling of that call has made exactly one
\* refresh call to the token endpoint and has issued the failed request
\* exactly twice (the original and one retry).
C2_OneRefreshOneRetry ==
  \A r \in Req :
    ( /\ route[r] = "spotify"
      /\ pc[r] = "done"
      /\ caught[r] = E401
      /\ cachedRefreshToken \in RefreshTokens )
    => /\ RefreshCalls(r) = 1
       /\ Issued(r, apiLog[r][Len(apiLog[r])].url) = 2

\* C3: a GET /spotify whose top-tracks request got a 401 while an access
\* and a refresh token were cached is answered with the success JSON (top
\* tracks and currently playing), and the store then holds another access
\* token than the rejected one.
C3_RefreshedEndToEnd ==
  \A r \in Req :
    ( /\ route[r] = "spotify"
      /\ pc[r] = "done"
      /\ caught[r] = E401
      /\ Issued(r, "currently-playing") = 0
      /\ cachedRefreshToken \in RefreshTokens )
    => /\ resp[r] = <<JsonOk("success")>>
       /\ cachedAccessToken # headers[r]

\* C4: the handling of one inbound call makes at most one refresh call and
\* issues each outbound API request at most twice, and a handling that has
\* caught an authentication failure is over: it has answered and has
\* nothing left to do but return, so that failure is its outcome.
C4_AtMostOneCycle ==
  \A r \in Req :
    /\ RefreshCalls(r) <= 1
    /\ \A u \in {"top-tracks", "currently-playing", "pause", "play"} :
         Issued(r, u) <= 2
    /\ (caught[r] # NoError /\ AuthFailure(caught[r])) =>
         pc[r] \in {"returned_null", "done"} /\ Len(resp[r]) = 1

\* A GET /spotify whose currently-playing request got a 401: both requests
\* were issued once, nothing was refreshed, the call is answered.
C4_Witness ==
  \E r \in Req :
    /\ route[r] = "spotify"
    /\ caught[r] = E401
    /\ Issued(r, "top-tracks") = 1
    /\ Issued(r, "currently-playing") = 1
    /\ RefreshCalls(r) = 0
    /\ pc[r] = "done"

\* C5: when an outbound request of any route that calls the remote API hits
\* an authentication failure while no refresh token is stored, the request
\* is answered with a redirect to /login and no call to the token endpoint
\* is made.
C5_NoRefreshTokenReauthorizes ==
  [][\A r \in Req :
       ( /\ Catches(r)
         /\ AuthFailure(caught'[r])
         /\ ~Truthy(cachedRefreshToken) )
       => /\ resp'[r] = <<RedirectLogin>>
          /\ tokenLog' = tokenLog
          /\ tokenLog[r] = <<>>]_vars

\* C6: a failure is classified as an authentication failure if and only if
\* its status is 401 or its error body carries a message that contains
\* "expired" in any letter case.
C6_AuthClassification ==
  clsResult # "none" => ((clsResult = "auth") <=> AuthFailure(clsError))

\* A failure without status 401 classified as authentication failure on a
\* message that is not in lower case.
C6_Witness ==
  /\ clsResult = "auth"
  /\ clsError.status # 401
  /\ clsError.message # ToLowerCase(clsError.message)

C8_FailedExchangeKeepsStore ==
  [][\A r \in Req :
       ( /\ route[r] = "callback"
         /\ pc[r] = "await_token"
         /\ caught'[r] # NoError )
       => /\ store' = store
          /\ resp'[r] = <<JsonError>>]_vars

\* A failed exchange after a successful one: the tokens are still cached.
C8_Witness ==
  \E r \in Req :
    /\ route[r] = "callback"
    /\ caught[r] = E400InvalidGrant
    /\ resp[r] = <<JsonError>>
    /\ cachedAccessToken \in AccessTokens
    /\ cachedRefreshToken \in RefreshTokens

\* C9: once a refresh token is stored, no step clears it.
C9_RefreshTokenNeverCleared ==
  [][(cachedRefreshToken \in RefreshTokens) =>
       (cachedRefreshToken' \in RefreshTokens)]_vars

\* C10: every outbound API request of a GET /spotify carries, as its
\* bearer token, the access token the Token Store holds when the request is
\* issued.
C10_BearerIsCurrentToken ==
  [][\A r \in Req :
       (route'[r] = "spotify" /\ Len(apiLog'[r]) > Len(apiLog[r]))
       => apiLog'[r][Len(apiLog'[r])].bearer = cachedAccessToken]_vars

\* C11: with an access token cached, every outbound request of PUT
\* /spotify/stop and PUT /spotify/play/:trackUri carries the cached access
\* token of the Token Store as its bearer token.
C11_PlaybackUsesCachedToken ==
  [][\A r \in Req :
       ( /\ route'[r] \in {"stop", "play"}
         /\ Len(apiLog'[r]) > Len(apiLog[r])
         /\ Truthy(cachedAccessToken) )
       => apiLog'[r][Len(apiLog'[r])].bearer = cachedAccessToken]_vars

\* C12: on every route that calls the remote API, a call that ended on an
\* authentication failure is answered with a redirect to /login, never
\* with an HTTP 500 error payload.
C12_AuthFailureRedirectsEverywhere ==
  \A r \in Req :
    ( /\ route[r] \in ApiRoutes
      /\ pc[r] = "done"
      /\ caught[r] # NoError
      /\ AuthFailure(caught[r]) )
    => resp[r] = <<RedirectLogin>>

\* The handler of r has posted a refresh grant and is not finished.
RefreshInFlight(r) ==
  /\ pc[r] # "done"
  /\ tokenLog[r] # <<>>
  /\ tokenLog[r][Len(tokenLog[r])] = "refresh_token"

\* C14: at any time at most one refresh call to the token endpoint is in
\* flight, also when several inbound requests have each observed an
\* authentication failure.
C14_AtMostOneRefreshInFlight ==
  Cardinality({r \in Req : RefreshInFlight(r)}) <= 1

\* Two GET /spotify calls that used the same access token and both
\* observed an authentication failure; no refresh call went out.
C14_Witness ==
  \E r1, r2 \in Req :
    /\ r1 # r2
    /\ route[r1] = "spotify" /\ route[r2] = "spotify"
    /\ headers[r1] = headers[r2]
    /\ AuthFailure(caught[r1]) /\ AuthFailure(caught[r2])
    /\ \A r \in Req : RefreshCalls(r) = 0

\* The handler of r is suspended on an outbound call it has issued.
Outstanding(r) ==
  \/ pc[r] = "await_token" /\ tokenLog[r] = <<"authorization_code">>
  \/ /\ apiLog[r] # <<>>
     /\ <<pc[r], apiLog[r][Len(apiLog[r])].url>> \in
          { <<"await_top", "top-tracks">>, <<"await_playing", "currently-playing">>,
            <<"await_pause", "pause">>, <<"await_play", "play">> }

\* C15: every inbound request gets at most one HTTP response, a redirect or
\* a JSON body; a request that has none yet is waiting for an outbound call
\* that has not completed, or the route's catch that answers it is the
\* pending job of its handler; a finished handler has answered.
C15_ExactlyOneResponse ==
  \A r \in Req :
    /\ Len(resp[r]) <= 1
    /\ \A i \in DOMAIN resp[r] : resp[r][i].kind \in {"redirect", "json"}
    /\ (pc[r] = "done") => (Len(resp[r]) = 1)
    /\ (route[r] # "none" /\ resp[r] = <<>>) =>
         (Outstanding(r) \/ ENABLED SpotifyCatch(r))

\* One GET /spotify that returned with the redirect alone after a 401,
\* another answered with the 500 alone after the TypeError of line 195.
C15_Witness ==
  /\ \E r \in Req :
       /\ route[r] = "spotify" /\ caught[r] = E401
       /\ pc[r] = "done" /\ resp[r] = <<RedirectLogin>>
  /\ \E r \in Req :
       /\ route[r] = "spotify" /\ caught[r] = E500Number
       /\ pc[r] = "done" /\ resp[r] = <<JsonError>>

\* C16: a currently-playing request is issued only by a GET /spotify whose
\* top-tracks request has succeeded: by a handler that was awaiting the
\* top-tracks call, has caught no failure and has not answered; after a
\* failed top-tracks request none is issued.
C16_PlayingOnlyAfterTopTracks ==
  [][\A r \in Req :
       (Len(apiLog'[r]) > Len(apiLog[r]) /\
        apiLog'[r][Len(apiLog'[r])].url = "currently-playing")
       => /\ route[r] = "spotify"
          /\ pc[r] = "await_top"
          /\ Issued(r, "top-tracks") = 1
          /\ caught'[r] = NoError
          /\ resp'[r] = <<>>]_vars

\* One GET /spotify ended by a rate-limited top-tracks request without a
\* currently-playing request, another that went on to currently-playing.
C16_Witness ==
  /\ \E r \in Req :
       /\ route[r] = "spotify"
       /\ caught[r] = E429
       /\ pc[r] = "done"
       /\ Issued(r, "currently-playing") = 0
  /\ \E r \in Req :
       /\ route[r] = "spotify"
       /\ Issued(r, "top-tracks") = 1
       /\ Issued(r, "currently-playing") = 1

\* C17: the cached tokens change only in a step in which a /callback
\* exchange succeeds; /login, /spotify, /spotify/stop, /spotify/play and a
\* failed /callback leave both unchanged.
C17_OnlyCallbackWritesStore ==
  [][store' # store =>
       \E r \in Req :
         /\ route[r] = "callback"
         /\ pc[r] = "await_token"
         /\ pc'[r] = "done"
         /\ resp'[r] = <<JsonOk("tokens")>>]_vars

\* Tokens still cached after a GET /spotify that ended on an
\* authentication failure and a finished playback or login request.
C17_Witness ==
  /\ cachedAccessToken \in AccessTokens
  /\ cachedRefreshToken \in RefreshTokens
  /\ \E r \in Req :
       /\ route[r] = "spotify"
       /\ AuthFailure(caught[r])
       /\ headers[r] = cachedAccessToken
       /\ pc[r] = "done"
  /\ \E r \in Req : route[r] \in {"stop", "play", "login"} /\ pc[r] = "done"

\* C13: the two stored tokens are always the pair of one token exchange:
\* nothing is stored before the first successful exchange, and afterwards
\* the store holds the access token and the refresh token (or its absence)
\* of one and the same successful exchange.
C13_TokensOfOneExchange ==
  \/ store = <<Null, Null>> /\ \A q \in Req : ~CallbackSucceeded(q)
  \/ \E q \in Req :
       /\ CallbackSucceeded(q)
       /\ store = <<tokenResponse[q].access_token, tokenResponse[q].refresh_token>>

\* Two /callback exchanges were in flight together and both succeeded, with
\* different access and different refresh tokens.
C13_Witness ==
  \E q1, q2 \in Req :
    /\ q2 = q1 + 1
    /\ CallbackSucceeded(q1) /\ CallbackSucceeded(q2)
    /\ tokenResponse[q1].access_token # tokenResponse[q2].access_token
    /\ tokenResponse[q1].refresh_token \in RefreshTokens
    /\ tokenResponse[q2].refresh_token \in RefreshTokens
    /\ tokenResponse[q1].refresh_token # tokenResponse[q2].refresh_token
    /\ store = <<tokenResponse[q1].access_token, tokenResponse[q1].refresh_token>>

====
